---- MODULE Spec2Model ----
(***************************************************************************)
(* result-ts: the Result value model, the synchronous and asynchronous     *)
(* combinators, the chain wrapper, the adapters of throwing computations   *)
(* and the pattern dispatch of src/index.ts.                               *)
(*                                                                         *)
(* Spec applies the constructors, the combinators, the adapters, the       *)
(* dispatch and the JSON round trip to the outcome a wrapper holds.        *)
(* SpecRace follows one call of asyncResultAnd / asyncResultOr on two      *)
(* promises that settle in either order.  SpecAsync follows the            *)
(* continuations built from the wrappers of asyncChain, step by step, as   *)
(* the promises behind them settle; SpecAsyncLive is SpecAsync under the   *)
(* host's scheduling.                                                      *)
(*                                                                         *)
(* A JavaScript value is a record with a type tag `t`.  An object carries  *)
(* its own properties as further record fields, so that the presence of a  *)
(* property (a key of the object) and the value read from it are both      *)
(* visible.  A call is a completion: it returns a value or throws one, and *)
(* carries the log of the callback invocations it made.                    *)
(***************************************************************************)
EXTENDS Integers, Sequences, FiniteSets, TLC

VARIABLES cur, steps, op, input, args, sync, chained, deferred,
          wrapper, asyncWrapper, achained,
          racing, pResult, pOther, pReturned, reaction, order,
          pInitial, stages, trace

\* the wrapper's outcome and the last call made on it
mainVars ==
    <<cur, steps, op, input, args, sync, chained, deferred, wrapper,
      asyncWrapper, achained>>

\* one call of an asynchronous combinator on two promises that settle later
raceVars == <<racing, pResult, pOther, pReturned, reaction, order>>

\* the continuations built from the wrappers of one asynchronous chain
asyncVars == <<pInitial, stages, trace>>

vars == <<mainVars, raceVars, asyncVars>>

(***************************************************************************)
(* Bounds                                                                  *)
(***************************************************************************)
\* numbers used as success values and details are 0..MaxNum
MaxNum == 1
\* combinators applied in a row to one outcome
MaxSteps == 3
\* continuations built from the wrappers of one asynchronous chain
MaxStages == 2

(***************************************************************************)
(* JavaScript values                                                       *)
(***************************************************************************)
Undefined == [t |-> "undefined"]

Null == [t |-> "null"]

Bool(b) == [t |-> "boolean", b |-> b]

Num(n) == [t |-> "number", n |-> n]

Str(s) == [t |-> "string", s |-> s]

\* new Error(msg)
NewError(msg) == [t |-> "Error", message |-> msg]

\* the own properties of an object
Keys(o) == IF o.t = "object" THEN DOMAIN o \ {"t"} ELSE {}

\* o.k : a property that is not there reads as undefined
Get(o, k) == IF k \in Keys(o) THEN o[k] ELSE Undefined

\* the truthiness the conditional operator tests
Truthy(v) ==
    CASE v.t = "boolean" -> v.b
      [] v.t = "undefined" -> FALSE
      [] v.t = "null" -> FALSE
      [] v.t = "number" -> v.n # 0
      [] v.t = "string" -> v.s # ""
      [] OTHER -> TRUE

\* a promise is pending, fulfilled with a value or rejected with a reason
Fulfilled(v) == [t |-> "promise", v |-> v, state |-> "fulfilled"]

Rejected(e) == [t |-> "promise", v |-> e, state |-> "rejected"]

Unsettled == [t |-> "promise", v |-> Undefined, state |-> "pending"]

\* String(x)
StringOf(x) ==
    CASE x.t = "string" -> x.s
      [] x.t = "number" -> ToString(x.n)
      [] x.t = "boolean" -> IF x.b THEN "true" ELSE "false"
      [] x.t = "undefined" -> "undefined"
      [] x.t = "null" -> "null"
      [] x.t = "Error" -> "Error: " \o x.message
      [] OTHER -> "[object Object]"

(***************************************************************************)
(* Completions                                                             *)
(***************************************************************************)
Return(v, calls) == [calls |-> calls, kind |-> "return", val |-> v]

Throw(v, calls) == [calls |-> calls, kind |-> "throw", val |-> v]

\* an awaited promise that has not settled
Pending(calls) == [calls |-> calls, kind |-> "pending", val |-> Undefined]

NoCall == [calls |-> <<>>, kind |-> "none", val |-> Undefined]

(***************************************************************************)
(* Constructors                                                            *)
(***************************************************************************)
\* ok() that fills the other payload with a placeholder
ok_placeholder(value) ==
    [t |-> "object", value |-> value, ok |-> Bool(TRUE), error |-> Null]

ok(value) == [t |-> "object", value |-> value, ok |-> Bool(TRUE)]

err(error, detail) ==
    [t |-> "object", ok |-> Bool(FALSE), error |-> error, detail |-> detail]

okConstructor(value) == [t |-> "object", value |-> value, ok |-> Bool(TRUE)]

\* rest is the rest parameter ...args: detail is args[0], undefined when
\* no detail argument was passed
errConstructor(error, rest) ==
    [t |-> "object", ok |-> Bool(FALSE), error |-> error,
     detail |-> IF Len(rest) > 0 THEN rest[1] ELSE Undefined]

(***************************************************************************)
(* Callbacks the callers pass.  Each is total; "boom" throws.  A callback   *)
(* over a Failure receives what the combinator passes it and reads the     *)
(* fields `error` and `detail` of it.                                      *)
(***************************************************************************)
\* the handlers of matchNested, one per tag: (d) => `<name>:${d}`
TagHandlerFns == {"not_found", "invalid", "empty", "invalid_number", "neg"}

CallbackBody(fn, x) ==
    CASE fn = "identity" -> Return(x, <<>>)
      [] fn = "double" ->
            Return(IF x.t = "number" THEN Num(x.n * 2) ELSE Num(0), <<>>)
      [] fn = "wrapOk" -> Return(ok(x), <<>>)
      [] fn = "reject" -> Return(err(Str("invalid"), x), <<>>)
      [] fn = "retag" -> Return(err(Str("wrapped"), Get(x, "error")), <<>>)
      [] fn = "recover" -> Return(ok(Get(x, "detail")), <<>>)
      [] fn = "detailOf" -> Return(Get(x, "detail"), <<>>)
      [] fn = "isNumber" -> Return(Bool(x.t = "number"), <<>>)
      [] fn = "isNotFound" ->
            Return(Bool(Get(x, "error") = Str("not_found")), <<>>)
      [] fn = "log" -> Return(Undefined, <<>>)
      [] fn = "boom" -> Throw(NewError("boom"), <<>>)
      [] fn = "parseValid" -> Return([t |-> "object", a |-> Num(1)], <<>>)
      [] fn = "parseInvalid" -> Throw(NewError("Unexpected token"), <<>>)
      [] fn = "throwString" -> Throw(Str("oops"), <<>>)
      [] fn = "toParseError" ->
            Return(err(Str("parse_error"), Str(StringOf(x))), <<>>)
      [] fn = "asyncValue" -> Return(Fulfilled(Num(42)), <<>>)
      [] fn = "asyncBoom" -> Return(Rejected(NewError("boom")), <<>>)
      [] fn = "asyncNever" -> Return(Unsettled, <<>>)
      [] fn = "asyncWrapOk" -> Return(Fulfilled(ok(x)), <<>>)
      [] fn = "asyncRecover" -> Return(Fulfilled(ok(Get(x, "detail"))), <<>>)
      [] fn = "asyncRetag" ->
            Return(Fulfilled(err(Str("wrapped"), Get(x, "error"))), <<>>)
      [] fn = "describe" -> Return(Str("value: " \o StringOf(x)), <<>>)
      [] fn = "describeErr" ->
            Return(Str("error: " \o StringOf(Get(x, "error"))), <<>>)
      [] fn \in TagHandlerFns -> Return(Str(fn \o ":" \o StringOf(x)), <<>>)

\* fn(x): the callback's completion, with the invocation logged
Call(fn, x) ==
    LET c == CallbackBody(fn, x)
    IN  [c EXCEPT !.calls = <<[fn |-> fn, arg |-> x]>>]

(***************************************************************************)
(* Synchronous combinators                                                 *)
(***************************************************************************)
resultAnd(result, other) ==
    Return(IF Truthy(Get(result, "ok")) THEN other ELSE result, <<>>)

\* andThen that wraps what fn returns, as map does
resultAndThen_rewrap(result, fn) ==
    IF Truthy(Get(result, "ok"))
    THEN LET c == Call(fn, Get(result, "value"))
         IN  IF c.kind = "return" THEN Return(ok(c.val), c.calls) ELSE c
    ELSE Return(result, <<>>)

resultAndThen(result, fn) ==
    IF Truthy(Get(result, "ok"))
    THEN Call(fn, Get(result, "value"))
    ELSE Return(result, <<>>)

resultErr(result) ==
    Return(IF ~Truthy(Get(result, "ok")) THEN result ELSE Null, <<>>)

resultExpect(result, msg) ==
    IF ~Truthy(Get(result, "ok"))
    THEN Throw(NewError(msg), <<>>)
    ELSE Return(Get(result, "value"), <<>>)

resultExpectErr(result, msg) ==
    IF Truthy(Get(result, "ok"))
    THEN Throw(NewError(msg), <<>>)
    ELSE Return(result, <<>>)

\* flatten that removes no level
resultFlatten_keep(result) == Return(result, <<>>)

resultFlatten(result) ==
    Return(IF Truthy(Get(result, "ok")) THEN Get(result, "value") ELSE result,
           <<>>)

\* inspect that does not test the branch
resultInspect_always(result, fn) ==
    LET c == Call(fn, Get(result, "value"))
    IN  IF c.kind = "return" THEN Return(result, c.calls) ELSE c

resultInspect(result, fn) ==
    IF Truthy(Get(result, "ok"))
    THEN LET c == Call(fn, Get(result, "value"))
         IN  IF c.kind = "return" THEN Return(result, c.calls) ELSE c
    ELSE Return(result, <<>>)

resultInspectErr(result, fn) ==
    IF ~Truthy(Get(result, "ok"))
    THEN LET c == Call(fn, result)
         IN  IF c.kind = "return" THEN Return(result, c.calls) ELSE c
    ELSE Return(result, <<>>)

resultIsErr(res) == Return(Bool(~Truthy(Get(res, "ok"))), <<>>)

\* !r.ok && fn(r)
resultIsErrAnd(res, fn) ==
    IF ~Truthy(Get(res, "ok")) THEN Call(fn, res) ELSE Return(Bool(FALSE), <<>>)

resultIsOk(res) == Return(Get(res, "ok"), <<>>)

\* r.ok && fn(r.value)
resultIsOkAnd(res, fn) ==
    IF Truthy(Get(res, "ok"))
    THEN Call(fn, Get(res, "value"))
    ELSE Return(Get(res, "ok"), <<>>)

\* map that does not test the branch
resultMap_always(result, fn) ==
    LET c == Call(fn, Get(result, "value"))
    IN  IF c.kind = "return" THEN Return(ok(c.val), c.calls) ELSE c

resultMap(result, fn) ==
    IF Truthy(Get(result, "ok"))
    THEN LET c == Call(fn, Get(result, "value"))
         IN  IF c.kind = "return" THEN Return(ok(c.val), c.calls) ELSE c
    ELSE Return(result, <<>>)

resultMapErr(result, fn) ==
    IF Truthy(Get(result, "ok")) THEN Return(result, <<>>) ELSE Call(fn, result)

resultMapOr(result, defaultValue, fn) ==
    IF Truthy(Get(result, "ok"))
    THEN Call(fn, Get(result, "value"))
    ELSE Return(defaultValue, <<>>)

resultMapOrElse(result, defaultFn, fn) ==
    IF Truthy(Get(result, "ok"))
    THEN Call(fn, Get(result, "value"))
    ELSE Call(defaultFn, result)

\* ok() that leaves the value of a Failure, which is not there, as it reads
resultOk_absent(result) == Return(Get(result, "value"), <<>>)

resultOk(result) ==
    Return(IF Truthy(Get(result, "ok")) THEN Get(result, "value") ELSE Null,
           <<>>)

\* or with its branches exchanged
resultOr_swapped(result, other) ==
    Return(IF Truthy(Get(result, "ok")) THEN other ELSE result, <<>>)

resultOr(result, other) ==
    Return(IF Truthy(Get(result, "ok")) THEN result ELSE other, <<>>)

\* orElse that evaluates fn before it tests the branch
resultOrElse_eager(result, fn) ==
    LET c == Call(fn, result)
    IN  IF Truthy(Get(result, "ok")) THEN Return(result, c.calls) ELSE c

resultOrElse(result, fn) ==
    IF Truthy(Get(result, "ok")) THEN Return(result, <<>>) ELSE Call(fn, result)

resultUnwrap(result) ==
    IF ~Truthy(Get(result, "ok"))
    THEN Throw(result, <<>>)
    ELSE Return(Get(result, "value"), <<>>)

resultUnwrapErr(result) ==
    IF Truthy(Get(result, "ok"))
    THEN Throw(NewError("Result is ok; expected an error"), <<>>)
    ELSE Return(result, <<>>)

\* unwrapOr that throws on a Failure, as unwrap does
resultUnwrapOr_strict(result, defaultValue) ==
    IF Truthy(Get(result, "ok"))
    THEN Return(Get(result, "value"), <<>>)
    ELSE Throw(result, <<>>)

resultUnwrapOr(result, defaultValue) ==
    Return(IF Truthy(Get(result, "ok")) THEN Get(result, "value")
           ELSE defaultValue, <<>>)

resultUnwrapOrElse(result, fn) ==
    IF Truthy(Get(result, "ok"))
    THEN Return(Get(result, "value"), <<>>)
    ELSE Call(fn, result)

\* the adapter without its try block
tryCatchResult_uncaught(fn, errFn) ==
    LET c == Call(fn, Undefined)
    IN  IF c.kind = "return" THEN Return(ok(c.val), c.calls) ELSE c

\* try { return ok(fn()); } catch (e) { return err(e); }
tryCatchResult(fn, errFn) ==
    LET c == Call(fn, Undefined)
    IN  IF c.kind = "return"
        THEN Return(ok(c.val), c.calls)
        ELSE LET e == Call(errFn, c.val)
             IN  [e EXCEPT !.calls = c.calls \o e.calls]

\* result.ok ? handlers.ok(result.value) : handlers.err(result)
match(result, handlers) ==
    IF Truthy(Get(result, "ok"))
    THEN Call(handlers.ok, Get(result, "value"))
    ELSE Call(handlers.err, result)

\* matchNested that hands the handler the whole Failure
matchNested_whole(result, handlers) ==
    IF Truthy(Get(result, "ok"))
    THEN Call(handlers.ok, Get(result, "value"))
    ELSE Call(handlers.err[Get(result, "error").s], result)

\* the failure branch goes to the handler registered under the Failure's
\* tag, which receives the detail
matchNested(result, handlers) ==
    IF Truthy(Get(result, "ok"))
    THEN Call(handlers.ok, Get(result, "value"))
    ELSE Call(handlers.err[Get(result, "error").s], Get(result, "detail"))

(***************************************************************************)
(* The chain wrapper: chain(initial) is the object holding `result`; each  *)
(* method is a closure over `initial` that calls the free function and,    *)
(* for an outcome, wraps what it returns                                   *)
(***************************************************************************)
chain(initial) == [t |-> "chain", result |-> initial]

\* a method that forgets to wrap the outcome it returns
Rechain_raw(c) == c

\* chain(<the call>): the wrapper of a returned outcome; a throw passes
Rechain(c) == IF c.kind = "return" THEN Return(chain(c.val), c.calls) ELSE c

\* chain(initial).method(...a): the members of the object chain() returns
chain_method(initial, method, a) ==
    CASE method = "and" -> Rechain(resultAnd(initial, a.other))
      [] method = "andThen" -> Rechain(resultAndThen(initial, a.fn))
      [] method = "map" -> Rechain(resultMap(initial, a.fn))
      [] method = "mapErr" -> Rechain(resultMapErr(initial, a.fn))
      [] method = "mapOr" -> resultMapOr(initial, a.defaultValue, a.fn)
      [] method = "mapOrElse" -> resultMapOrElse(initial, a.defaultFn, a.fn)
      [] method = "or" -> Rechain(resultOr(initial, a.other))
      [] method = "orElse" -> Rechain(resultOrElse(initial, a.fn))
      [] method = "unwrap" -> resultUnwrap(initial)
      [] method = "unwrapOr" -> resultUnwrapOr(initial, a.defaultValue)
      [] method = "unwrapOrElse" -> resultUnwrapOrElse(initial, a.fn)
      [] method = "expect" -> resultExpect(initial, a.msg)
      [] method = "expectErr" -> resultExpectErr(initial, a.msg)
      [] method = "unwrapErr" -> resultUnwrapErr(initial)
      [] method = "flatten" -> Rechain(resultFlatten(initial))
      [] method = "inspect" -> Rechain(resultInspect(initial, a.fn))
      [] method = "inspectErr" -> Rechain(resultInspectErr(initial, a.fn))
      [] method = "isOk" -> resultIsOk(initial)
      [] method = "isErr" -> resultIsErr(initial)
      [] method = "isOkAnd" -> resultIsOkAnd(initial, a.fn)
      [] method = "isErrAnd" -> resultIsErrAnd(initial, a.fn)
      [] method = "ok" -> resultOk(initial)
      [] method = "err" -> resultErr(initial)

\* a wrapper that moves on, in place, to the outcome its method returned
chain_receiver_advanced(initial, method, a) ==
    LET c == chain_method(initial, method, a)
    IN  IF c.kind = "return" /\ c.val.t = "chain" THEN c.val ELSE chain(initial)

\* the wrapper a method was called on, as it is after the call: the members
\* are closures that read `initial` and assign to nothing
chain_receiver(initial, method, a) == chain(initial)

okChainConstructor(value) == chain(okConstructor(value))

errChainConstructor(error, rest) == chain(errConstructor(error, rest))

(***************************************************************************)
(* Awaiting and settling promises                                          *)
(***************************************************************************)
\* Promise.resolve(x): a promise is passed through
PromiseResolve(x) == IF x.t = "promise" THEN x ELSE Fulfilled(x)

\* await <c>: a promise the expression returned is waited for; its value
\* is the result, its rejection is thrown; another value is its own result
Await(c) ==
    IF c.kind # "return" \/ c.val.t # "promise"
    THEN c
    ELSE CASE c.val.state = "fulfilled" -> Return(c.val.v, c.calls)
           [] c.val.state = "rejected" -> Throw(c.val.v, c.calls)
           [] OTHER -> Pending(c.calls)

\* the promise of an async function, or of a then callback, whose body
\* completes as c: resolved with what it returns (a returned promise is
\* followed), rejected with what it throws
Settle(c) ==
    CASE c.kind = "return" -> Return(PromiseResolve(c.val), c.calls)
      [] c.kind = "throw" -> Return(Rejected(c.val), c.calls)
      [] OTHER -> Return(Unsettled, c.calls)

\* a continuation that is dropped, and its promise left pending, when p is
\* rejected
Then_dropRejected(p, c) ==
    IF p.state = "fulfilled" THEN Settle(c) ELSE Return(Unsettled, <<>>)

\* p.then(cb), and `const r = await p; ...` in an async function: c is the
\* completion of the continuation on p's value.  The continuation runs only
\* once p is fulfilled; a rejected or pending p is passed on.
Then(p, c) == IF p.state = "fulfilled" THEN Settle(c) ELSE Return(p, <<>>)

(***************************************************************************)
(* Asynchronous combinators                                                *)
(***************************************************************************)
\* and that takes `other` as soon as other has settled
asyncResultAnd_hasty(result, other) ==
    IF other.state # "pending"
    THEN Return(other, <<>>)
    ELSE Then(result, Return(IF Truthy(Get(result.v, "ok")) THEN other
                             ELSE result.v, <<>>))

asyncResultAnd(result, other) ==
    Then(result, Return(IF Truthy(Get(result.v, "ok")) THEN other
                        ELSE result.v, <<>>))

\* andThen that turns what fn throws into a Failure
asyncResultAndThen_catching(result, fn) ==
    Then(result, IF Truthy(Get(result.v, "ok"))
                 THEN LET c == Call(fn, Get(result.v, "value"))
                      IN  IF c.kind = "throw"
                          THEN Return(err(Str("exception"), c.val), c.calls)
                          ELSE c
                 ELSE Return(result.v, <<>>))

asyncResultAndThen(result, fn) ==
    Then(result, IF Truthy(Get(result.v, "ok"))
                 THEN Call(fn, Get(result.v, "value"))
                 ELSE Return(result.v, <<>>))

asyncResultErr(result) ==
    Then(result, Return(IF ~Truthy(Get(result.v, "ok")) THEN result.v
                        ELSE Null, <<>>))

asyncResultExpect(result, msg) ==
    Then(result, IF ~Truthy(Get(result.v, "ok"))
                 THEN Throw(NewError(msg), <<>>)
                 ELSE Return(Get(result.v, "value"), <<>>))

asyncResultExpectErr(result, msg) ==
    Then(result, IF Truthy(Get(result.v, "ok"))
                 THEN Throw(NewError(msg), <<>>)
                 ELSE Return(result.v, <<>>))

asyncResultFlatten(result) ==
    Then(result, Return(IF Truthy(Get(result.v, "ok"))
                        THEN Get(result.v, "value") ELSE result.v, <<>>))

asyncResultInspect(result, fn) ==
    Then(result, IF Truthy(Get(result.v, "ok"))
                 THEN LET c == Await(Call(fn, Get(result.v, "value")))
                      IN  IF c.kind = "return" THEN Return(result.v, c.calls)
                          ELSE c
                 ELSE Return(result.v, <<>>))

asyncResultInspectErr(result, fn) ==
    Then(result, IF ~Truthy(Get(result.v, "ok"))
                 THEN LET c == Await(Call(fn, result.v))
                      IN  IF c.kind = "return" THEN Return(result.v, c.calls)
                          ELSE c
                 ELSE Return(result.v, <<>>))

asyncResultIsErr(result) ==
    Then(result, Return(Bool(~Truthy(Get(result.v, "ok"))), <<>>))

asyncResultIsErrAnd(result, fn) ==
    Then(result, IF ~Truthy(Get(result.v, "ok"))
                 THEN Call(fn, result.v)
                 ELSE Return(Bool(FALSE), <<>>))

asyncResultIsOk(result) == Then(result, Return(Get(result.v, "ok"), <<>>))

asyncResultIsOkAnd(result, fn) ==
    Then(result, IF Truthy(Get(result.v, "ok"))
                 THEN Call(fn, Get(result.v, "value"))
                 ELSE Return(Get(result.v, "ok"), <<>>))

\* map that does not wait for what fn returns
asyncResultMap_unawaited(result, fn) ==
    Then(result, IF Truthy(Get(result.v, "ok"))
                 THEN LET c == Call(fn, Get(result.v, "value"))
                      IN  IF c.kind = "return" THEN Return(ok(c.val), c.calls)
                          ELSE c
                 ELSE Return(result.v, <<>>))

asyncResultMap(result, fn) ==
    Then(result, IF Truthy(Get(result.v, "ok"))
                 THEN LET c == Await(Call(fn, Get(result.v, "value")))
                      IN  IF c.kind = "return" THEN Return(ok(c.val), c.calls)
                          ELSE c
                 ELSE Return(result.v, <<>>))

\* mapErr that takes a rejection of its input for a Failure
asyncResultMapErr_catching(result, fn) ==
    IF result.state = "rejected"
    THEN Return(Fulfilled(err(Str("rejected"), result.v)), <<>>)
    ELSE Then(result, IF Truthy(Get(result.v, "ok"))
                      THEN Return(result.v, <<>>)
                      ELSE Await(Call(fn, result.v)))

asyncResultMapErr(result, fn) ==
    Then(result, IF Truthy(Get(result.v, "ok"))
                 THEN Return(result.v, <<>>)
                 ELSE Await(Call(fn, result.v)))

asyncResultMapOr(result, defaultValue, fn) ==
    Then(result, IF Truthy(Get(result.v, "ok"))
                 THEN Await(Call(fn, Get(result.v, "value")))
                 ELSE Return(defaultValue, <<>>))

asyncResultMapOrElse(result, defaultFn, fn) ==
    Then(result, IF Truthy(Get(result.v, "ok"))
                 THEN Await(Call(fn, Get(result.v, "value")))
                 ELSE Await(Call(defaultFn, result.v)))

asyncResultOk(result) ==
    Then(result, Return(IF Truthy(Get(result.v, "ok"))
                        THEN Get(result.v, "value") ELSE Null, <<>>))

asyncResultOr(result, other) ==
    Then(result, Return(IF Truthy(Get(result.v, "ok")) THEN result.v
                        ELSE other, <<>>))

asyncResultOrElse(result, fn) ==
    Then(result, IF Truthy(Get(result.v, "ok"))
                 THEN Return(result.v, <<>>)
                 ELSE Call(fn, result.v))

\* unwrap that rejects with a new Error instead of the Failure
asyncResultUnwrap_error(result) ==
    Then(result, IF ~Truthy(Get(result.v, "ok"))
                 THEN Throw(NewError("Result is err"), <<>>)
                 ELSE Return(Get(result.v, "value"), <<>>))

asyncResultUnwrap(result) ==
    Then(result, IF ~Truthy(Get(result.v, "ok"))
                 THEN Throw(result.v, <<>>)
                 ELSE Return(Get(result.v, "value"), <<>>))

asyncResultUnwrapErr(result) ==
    Then(result, IF Truthy(Get(result.v, "ok"))
                 THEN Throw(NewError("Result is ok; expected an error"), <<>>)
                 ELSE Return(result.v, <<>>))

asyncResultUnwrapOr(result, defaultValue) ==
    Then(result, Return(IF Truthy(Get(result.v, "ok"))
                        THEN Get(result.v, "value") ELSE defaultValue, <<>>))

asyncResultUnwrapOrElse(result, fn) ==
    Then(result, IF Truthy(Get(result.v, "ok"))
                 THEN Return(Get(result.v, "value"), <<>>)
                 ELSE Await(Call(fn, result.v)))

\* the adapter that waits outside its try block
tryCatchResultAsync_unguarded(fn, errFn) ==
    LET c == Await(Call(fn, Undefined))
    IN  Settle(IF c.kind = "return" THEN Return(ok(c.val), c.calls) ELSE c)

\* async: try { return ok(await fn()); } catch (e) { return err(e); }
tryCatchResultAsync(fn, errFn) ==
    LET c == Await(Call(fn, Undefined))
    IN  Settle(CASE c.kind = "return" -> Return(ok(c.val), c.calls)
                 [] c.kind = "throw" ->
                       LET e == Call(errFn, c.val)
                       IN  [e EXCEPT !.calls = c.calls \o e.calls]
                 [] OTHER -> c)

\* async: try { return ok(await prom); } catch (e) { return err(e); }
tryCatchResultPromise(prom, errFn) ==
    LET c == Await(Return(prom, <<>>))
    IN  Settle(CASE c.kind = "return" -> Return(ok(c.val), c.calls)
                 [] c.kind = "throw" ->
                       LET e == Call(errFn, c.val)
                       IN  [e EXCEPT !.calls = e.calls]
                 [] OTHER -> c)

\* const r = await result;
\* return r.ok ? await handlers.ok(r.value) : await handlers.err(r);
asyncMatch(result, handlers) ==
    Then(result, IF Truthy(Get(result.v, "ok"))
                 THEN Await(Call(handlers.ok, Get(result.v, "value")))
                 ELSE Await(Call(handlers.err, result.v)))

(***************************************************************************)
(* The asynchronous chain wrapper: asyncChain(initial) holds the promise   *)
(* `initial` as `result`; each method calls the asynchronous function on   *)
(* it and, for a promise of an outcome, wraps the promise returned         *)
(***************************************************************************)
asyncChain(initial) == [t |-> "asyncChain", result |-> initial]

\* asyncChain(<the call>): the wrapper of the promise returned
AsyncRechain(c) ==
    IF c.kind = "return" THEN Return(asyncChain(c.val), c.calls) ELSE c

\* asyncChain(initial).method(...a); a.other is the outcome that the promise
\* passed as `other` resolves to
asyncChain_method(initial, method, a) ==
    CASE method = "and" ->
            AsyncRechain(asyncResultAnd(initial, PromiseResolve(a.other)))
      [] method = "andThen" -> AsyncRechain(asyncResultAndThen(initial, a.fn))
      [] method = "map" -> AsyncRechain(asyncResultMap(initial, a.fn))
      [] method = "mapErr" -> AsyncRechain(asyncResultMapErr(initial, a.fn))
      [] method = "mapOr" -> asyncResultMapOr(initial, a.defaultValue, a.fn)
      [] method = "mapOrElse" ->
            asyncResultMapOrElse(initial, a.defaultFn, a.fn)
      [] method = "or" ->
            AsyncRechain(asyncResultOr(initial, PromiseResolve(a.other)))
      [] method = "orElse" -> AsyncRechain(asyncResultOrElse(initial, a.fn))
      [] method = "unwrap" -> asyncResultUnwrap(initial)
      [] method = "unwrapOr" -> asyncResultUnwrapOr(initial, a.defaultValue)
      [] method = "unwrapOrElse" -> asyncResultUnwrapOrElse(initial, a.fn)
      [] method = "expect" -> asyncResultExpect(initial, a.msg)
      [] method = "expectErr" -> asyncResultExpectErr(initial, a.msg)
      [] method = "unwrapErr" -> asyncResultUnwrapErr(initial)
      [] method = "flatten" -> AsyncRechain(asyncResultFlatten(initial))
      [] method = "inspect" -> AsyncRechain(asyncResultInspect(initial, a.fn))
      [] method = "inspectErr" ->
            AsyncRechain(asyncResultInspectErr(initial, a.fn))
      [] method = "isOk" -> asyncResultIsOk(initial)
      [] method = "isErr" -> asyncResultIsErr(initial)
      [] method = "isOkAnd" -> asyncResultIsOkAnd(initial, a.fn)
      [] method = "isErrAnd" -> asyncResultIsErrAnd(initial, a.fn)
      [] method = "ok" -> asyncResultOk(initial)
      [] method = "err" -> asyncResultErr(initial)

\* the asynchronous wrapper a method was called on, as it is after the call
asyncChain_receiver(initial, method, a) == asyncChain(initial)

(***************************************************************************)
(* Serialization by the host: JSON.stringify and JSON.parse.  A JSON text  *)
(* is held as its syntax tree.  undefined has no JSON text: a property     *)
(* whose value is undefined is left out of the text of its object.         *)
(***************************************************************************)
NoText == [j |-> "none"]

RECURSIVE JSONStringify(_)
JSONStringify(v) ==
    CASE v.t = "undefined" -> NoText
      [] v.t = "null" -> [j |-> "null"]
      [] v.t = "boolean" -> [b |-> v.b, j |-> "literal"]
      [] v.t = "number" -> [n |-> v.n, j |-> "number"]
      [] v.t = "string" -> [s |-> v.s, j |-> "string"]
      [] v.t = "object" ->
            LET kept == {k \in Keys(v) : JSONStringify(v[k]) # NoText}
            IN  [j |-> "object",
                 members |-> [k \in kept |-> JSONStringify(v[k])]]
      [] OTHER -> [j |-> "object", members |-> [k \in {} |-> NoText]]

RECURSIVE JSONParse(_)
JSONParse(text) ==
    CASE text.j = "null" -> Null
      [] text.j = "literal" -> Bool(text.b)
      [] text.j = "number" -> Num(text.n)
      [] text.j = "string" -> Str(text.s)
      [] text.j = "object" ->
            [k \in DOMAIN text.members \cup {"t"} |->
                IF k = "t" THEN "object" ELSE JSONParse(text.members[k])]

\* JSON.parse(JSON.stringify(v)); JSON.parse of no text throws
JSONRoundTrip(v) ==
    IF JSONStringify(v) = NoText
    THEN Throw(NewError("SyntaxError"), <<>>)
    ELSE Return(JSONParse(JSONStringify(v)), <<>>)

(***************************************************************************)
(* The inputs: plain values, the error variants of the test suite          *)
(* (not_found: string, invalid: number, empty: undefined), the outcomes    *)
(* passed as `other`, the messages and the callbacks by parameter type     *)
(***************************************************************************)
Nums == 0..MaxNum

PlainValues == {Num(n) : n \in Nums} \cup {Str("hello"), Undefined, Null}

Tags == {"not_found", "invalid", "empty"}

DetailsOf(tag) ==
    CASE tag = "not_found" -> {Str("/path")}
      [] tag = "invalid" -> {Num(n) : n \in Nums}
      [] tag = "empty" -> {Undefined}

Others == {ok(Num(0)), err(Str("not_found"), Str("/path"))}

Msgs == {"custom msg"}

ValueFns == {"identity", "double", "wrapOk", "boom"}

ValueToResultFns == {"wrapOk", "reject", "boom"}

ErrToErrFns == {"retag", "boom"}

ErrToResultFns == {"recover", "retag", "boom"}

ErrToValueFns == {"detailOf", "boom"}

EffectFns == {"log", "identity", "retag", "boom"}

\* computations that return or throw, and the conversions of what they throw
Thunks == {"parseValid", "parseInvalid", "throwString"}

Converters == {"toParseError", "boom"}

\* computations that return a promise, or throw before they return one
AsyncThunks == {"asyncValue", "asyncBoom", "asyncNever", "throwString"}

Promises == {Fulfilled(Num(42)), Rejected(NewError("boom")), Unsettled}

\* the handlers of match
Handlers ==
    {[ok |-> h, err |-> g] : h \in {"describe", "boom"},
                             g \in {"describeErr", "boom"}}

\* the per-tag handlers of matchNested over the variants of the tests, and
\* those of the documented example ({invalid_number, negative})
NestedHandlers ==
    [ok |-> "describe",
     err |-> [not_found |-> "not_found", invalid |-> "invalid",
              empty |-> "empty"]]

ExampleHandlers ==
    [ok |-> "describe", err |-> [invalid_number |-> "invalid_number",
                                 negative |-> "neg"]]

ExampleOutcomes == {err(Str("negative"), Num(0 - 3)), ok(Num(42))}

NoArgs ==
    [msg |-> "", value |-> Undefined, error |-> Undefined,
     detail |-> Undefined, rest |-> <<>>, fn |-> "none", other |-> Undefined,
     defaultValue |-> Undefined, defaultFn |-> "none", errFn |-> "none",
     handlers |-> [ok |-> "none", err |-> "none"], prom |-> Undefined]

IsOutcome(x) == x.t = "object" /\ "ok" \in Keys(x)

IsSuccess(x) == IsOutcome(x) /\ Truthy(Get(x, "ok"))

IsFailure(x) == IsOutcome(x) /\ ~Truthy(Get(x, "ok"))

(***************************************************************************)
(* The state: `cur` is the outcome the chain wrapper holds; `op`, `input`  *)
(* and `args` are the last operation, the outcome it was applied to and    *)
(* its arguments; `sync` is the completion of the free function, `chained` *)
(* that of the wrapper's method on chain(input), `deferred` that of        *)
(* awaiting the asynchronous function on Promise.resolve(input).           *)
(***************************************************************************)
Init ==
    /\ cur = ok(Num(0))
    /\ steps = 0
    /\ op = "ok(value)"
    /\ input = Undefined
    /\ args = [NoArgs EXCEPT !.value = Num(0)]
    /\ sync = Return(ok(Num(0)), <<>>)
    /\ chained = NoCall
    /\ deferred = NoCall
    /\ wrapper = chain(ok(Num(0)))
    /\ asyncWrapper = asyncChain(Fulfilled(ok(Num(0))))
    /\ achained = NoCall
    /\ racing = "none"
    /\ pResult = Unsettled
    /\ pOther = Unsettled
    /\ pReturned = Unsettled
    /\ reaction = "none"
    /\ order = <<>>
    /\ pInitial = Unsettled
    /\ stages = <<>>
    /\ trace = <<>>

\* a constructor call starts a new outcome
Construct(name, a, s, c) ==
    /\ op' = name
    /\ input' = Undefined
    /\ args' = a
    /\ sync' = s
    /\ chained' = c
    /\ deferred' = NoCall
    /\ cur' = s.val
    /\ wrapper' = chain(s.val)
    /\ asyncWrapper' = asyncChain(PromiseResolve(s.val))
    /\ achained' = NoCall
    /\ UNCHANGED <<raceVars, asyncVars>>

\* ok(value); a value may be the current outcome, which nests it
CallOk ==
    \E value \in PlainValues \cup {cur} :
        /\ value = cur => steps < MaxSteps
        /\ steps' = IF value = cur THEN steps + 1 ELSE 0
        /\ Construct("ok(value)", [NoArgs EXCEPT !.value = value],
                     Return(ok(value), <<>>), NoCall)

\* err(error, detail)
CallErr ==
    \E tag \in Tags : \E detail \in DetailsOf(tag) :
        /\ steps' = 0
        /\ Construct("err(error, detail)",
                     [NoArgs EXCEPT !.error = Str(tag), !.detail = detail],
                     Return(err(Str(tag), detail), <<>>), NoCall)

\* resultType().ok(value) and resultType().okChain(value)
CallResultTypeOk ==
    \E value \in PlainValues :
        /\ steps' = 0
        /\ Construct("resultType().ok", [NoArgs EXCEPT !.value = value],
                     Return(okConstructor(value), <<>>),
                     Return(okChainConstructor(value), <<>>))

\* resultType().err(error, ...args) and resultType().errChain(error, ...args):
\* a variant declared undefined takes no detail argument
CallResultTypeErr ==
    \E tag \in Tags : \E detail \in DetailsOf(tag) :
        LET rest == IF tag = "empty" THEN <<>> ELSE <<detail>>
        IN  /\ steps' = 0
            /\ Construct("resultType().err",
                         [NoArgs EXCEPT !.error = Str(tag), !.detail = detail,
                                        !.rest = rest],
                         Return(errConstructor(Str(tag), rest), <<>>),
                         Return(errChainConstructor(Str(tag), rest), <<>>))

\* one combinator applied to the current outcome: s by the free function,
\* by the wrapper's method of that name, and d the promise the asynchronous
\* function returns, which is awaited.  A method that returns a wrapper
\* moves on to it.
Apply(name, a, s, d) ==
    /\ steps' = steps + 1
    /\ op' = name
    /\ input' = cur
    /\ args' = a
    /\ sync' = s
    /\ chained' = chain_method(cur, name, a)
    /\ deferred' = Await(d)
    /\ achained' = asyncChain_method(PromiseResolve(cur), name, a)
    /\ wrapper' = chain_receiver(cur, name, a)
    /\ asyncWrapper' = asyncChain_receiver(PromiseResolve(cur), name, a)
    /\ cur' = IF chained'.kind = "return" /\ chained'.val.t = "chain"
              THEN chained'.val.result
              ELSE cur
    /\ UNCHANGED <<raceVars, asyncVars>>

CallAnd ==
    /\ steps < MaxSteps
    /\ \E other \in Others :
           Apply("and", [NoArgs EXCEPT !.other = other],
                 resultAnd(cur, other),
                 asyncResultAnd(PromiseResolve(cur), PromiseResolve(other)))

CallAndThen ==
    /\ steps < MaxSteps
    /\ \E fn \in ValueToResultFns :
           Apply("andThen", [NoArgs EXCEPT !.fn = fn],
                 resultAndThen(cur, fn),
                 asyncResultAndThen(PromiseResolve(cur), fn))

CallMap ==
    /\ steps < MaxSteps
    /\ \E fn \in ValueFns :
           Apply("map", [NoArgs EXCEPT !.fn = fn],
                 resultMap(cur, fn),
                 asyncResultMap(PromiseResolve(cur), fn))

CallMapErr ==
    /\ steps < MaxSteps
    /\ \E fn \in ErrToErrFns :
           Apply("mapErr", [NoArgs EXCEPT !.fn = fn],
                 resultMapErr(cur, fn),
                 asyncResultMapErr(PromiseResolve(cur), fn))

CallMapOr ==
    /\ steps < MaxSteps
    /\ \E fn \in ValueFns \ {"wrapOk"} : \E defaultValue \in {Num(0)} :
           Apply("mapOr", [NoArgs EXCEPT !.fn = fn, !.defaultValue = defaultValue],
                 resultMapOr(cur, defaultValue, fn),
                 asyncResultMapOr(PromiseResolve(cur), defaultValue, fn))

CallMapOrElse ==
    /\ steps < MaxSteps
    /\ \E fn \in {"identity", "boom"} : \E defaultFn \in ErrToValueFns :
           Apply("mapOrElse", [NoArgs EXCEPT !.fn = fn, !.defaultFn = defaultFn],
                 resultMapOrElse(cur, defaultFn, fn),
                 asyncResultMapOrElse(PromiseResolve(cur), defaultFn, fn))

CallOr ==
    /\ steps < MaxSteps
    /\ \E other \in Others :
           Apply("or", [NoArgs EXCEPT !.other = other],
                 resultOr(cur, other),
                 asyncResultOr(PromiseResolve(cur), PromiseResolve(other)))

CallOrElse ==
    /\ steps < MaxSteps
    /\ \E fn \in ErrToResultFns :
           Apply("orElse", [NoArgs EXCEPT !.fn = fn],
                 resultOrElse(cur, fn),
                 asyncResultOrElse(PromiseResolve(cur), fn))

\* flatten is typed for an outcome of an outcome only
CallFlatten ==
    /\ steps < MaxSteps
    /\ IsFailure(cur) \/ IsOutcome(Get(cur, "value"))
    /\ Apply("flatten", NoArgs, resultFlatten(cur),
             asyncResultFlatten(PromiseResolve(cur)))

CallInspect ==
    /\ steps < MaxSteps
    /\ \E fn \in EffectFns :
           Apply("inspect", [NoArgs EXCEPT !.fn = fn],
                 resultInspect(cur, fn),
                 asyncResultInspect(PromiseResolve(cur), fn))

CallInspectErr ==
    /\ steps < MaxSteps
    /\ \E fn \in EffectFns :
           Apply("inspectErr", [NoArgs EXCEPT !.fn = fn],
                 resultInspectErr(cur, fn),
                 asyncResultInspectErr(PromiseResolve(cur), fn))

CallIsOk ==
    /\ steps < MaxSteps
    /\ Apply("isOk", NoArgs, resultIsOk(cur),
             asyncResultIsOk(PromiseResolve(cur)))

CallIsErr ==
    /\ steps < MaxSteps
    /\ Apply("isErr", NoArgs, resultIsErr(cur),
             asyncResultIsErr(PromiseResolve(cur)))

CallIsOkAnd ==
    /\ steps < MaxSteps
    /\ \E fn \in {"isNumber", "boom"} :
           Apply("isOkAnd", [NoArgs EXCEPT !.fn = fn],
                 resultIsOkAnd(cur, fn),
                 asyncResultIsOkAnd(PromiseResolve(cur), fn))

CallIsErrAnd ==
    /\ steps < MaxSteps
    /\ \E fn \in {"isNotFound", "boom"} :
           Apply("isErrAnd", [NoArgs EXCEPT !.fn = fn],
                 resultIsErrAnd(cur, fn),
                 asyncResultIsErrAnd(PromiseResolve(cur), fn))

CallUnwrap ==
    /\ steps < MaxSteps
    /\ Apply("unwrap", NoArgs, resultUnwrap(cur),
             asyncResultUnwrap(PromiseResolve(cur)))

CallUnwrapErr ==
    /\ steps < MaxSteps
    /\ Apply("unwrapErr", NoArgs, resultUnwrapErr(cur),
             asyncResultUnwrapErr(PromiseResolve(cur)))

CallUnwrapOr ==
    /\ steps < MaxSteps
    /\ \E defaultValue \in {Num(0), Str("default")} :
           Apply("unwrapOr", [NoArgs EXCEPT !.defaultValue = defaultValue],
                 resultUnwrapOr(cur, defaultValue),
                 asyncResultUnwrapOr(PromiseResolve(cur), defaultValue))

CallUnwrapOrElse ==
    /\ steps < MaxSteps
    /\ \E fn \in ErrToValueFns :
           Apply("unwrapOrElse", [NoArgs EXCEPT !.fn = fn],
                 resultUnwrapOrElse(cur, fn),
                 asyncResultUnwrapOrElse(PromiseResolve(cur), fn))

CallExpect ==
    /\ steps < MaxSteps
    /\ \E msg \in Msgs :
           Apply("expect", [NoArgs EXCEPT !.msg = msg],
                 resultExpect(cur, msg),
                 asyncResultExpect(PromiseResolve(cur), msg))

CallExpectErr ==
    /\ steps < MaxSteps
    /\ \E msg \in Msgs :
           Apply("expectErr", [NoArgs EXCEPT !.msg = msg],
                 resultExpectErr(cur, msg),
                 asyncResultExpectErr(PromiseResolve(cur), msg))

CallResultOk ==
    /\ steps < MaxSteps
    /\ Apply("ok", NoArgs, resultOk(cur),
             asyncResultOk(PromiseResolve(cur)))

CallResultErr ==
    /\ steps < MaxSteps
    /\ Apply("err", NoArgs, resultErr(cur),
             asyncResultErr(PromiseResolve(cur)))

\* a free function that is no member of the wrapper, applied to the outcome
\* res; the wrapper's outcome is left as it is
Invoke(name, res, a, s, d) ==
    /\ steps' = steps + 1
    /\ op' = name
    /\ input' = res
    /\ args' = a
    /\ sync' = s
    /\ chained' = NoCall
    /\ deferred' = d
    /\ cur' = cur
    /\ wrapper' = chain(cur)
    /\ asyncWrapper' = asyncChain(PromiseResolve(cur))
    /\ achained' = NoCall
    /\ UNCHANGED <<raceVars, asyncVars>>

\* an adapter of a throwing computation is applied to no outcome; the
\* wrapper goes on with the outcome `out`
Adapt(name, a, s, d, out) ==
    /\ op' = name
    /\ input' = Undefined
    /\ args' = a
    /\ sync' = s
    /\ chained' = NoCall
    /\ deferred' = d
    /\ cur' = out
    /\ wrapper' = chain(out)
    /\ asyncWrapper' = asyncChain(PromiseResolve(out))
    /\ achained' = NoCall
    /\ UNCHANGED <<raceVars, asyncVars>>

\* the outcome the synchronous adapter returns is the next current outcome
CallTryCatchResult ==
    \E fn \in Thunks : \E errFn \in Converters :
        /\ steps' = IF tryCatchResult(fn, errFn).kind = "return" THEN 0
                    ELSE steps
        /\ Adapt("tryCatchResult", [NoArgs EXCEPT !.fn = fn, !.errFn = errFn],
                 tryCatchResult(fn, errFn), NoCall,
                 IF tryCatchResult(fn, errFn).kind = "return"
                 THEN tryCatchResult(fn, errFn).val ELSE cur)

\* the call returns a promise, which is awaited
CallTryCatchResultAsync ==
    \E fn \in AsyncThunks : \E errFn \in Converters :
        /\ steps' = steps
        /\ Adapt("tryCatchResultAsync",
                 [NoArgs EXCEPT !.fn = fn, !.errFn = errFn],
                 tryCatchResultAsync(fn, errFn),
                 Await(tryCatchResultAsync(fn, errFn)), cur)

CallTryCatchResultPromise ==
    \E prom \in Promises : \E errFn \in Converters :
        /\ steps' = steps
        /\ Adapt("tryCatchResultPromise",
                 [NoArgs EXCEPT !.errFn = errFn, !.prom = prom],
                 tryCatchResultPromise(prom, errFn),
                 Await(tryCatchResultPromise(prom, errFn)), cur)

\* JSON.parse(JSON.stringify(result))
CallJSONRoundTrip ==
    /\ steps < MaxSteps
    /\ Invoke("JSON", cur, NoArgs, JSONRoundTrip(cur), NoCall)

\* match(result, handlers), and asyncMatch on the resolved promise, awaited
CallMatch ==
    /\ steps < MaxSteps
    /\ \E handlers \in Handlers :
           Invoke("match", cur, [NoArgs EXCEPT !.handlers = handlers],
                  match(cur, handlers),
                  Await(asyncMatch(PromiseResolve(cur), handlers)))

\* matchNested(result, handlers): the handlers cover every tag of the
\* outcome's type
CallMatchNested ==
    /\ steps < MaxSteps
    /\ \/ /\ IF IsSuccess(cur) THEN TRUE
             ELSE Get(cur, "error").s \in DOMAIN NestedHandlers.err
          /\ Invoke("matchNested", cur,
                    [NoArgs EXCEPT !.handlers = NestedHandlers],
                    matchNested(cur, NestedHandlers), NoCall)
       \/ \E res \in ExampleOutcomes :
              Invoke("matchNested", res,
                     [NoArgs EXCEPT !.handlers = ExampleHandlers],
                     matchNested(res, ExampleHandlers), NoCall)

Next ==
    \/ CallOk
    \/ CallErr
    \/ CallResultTypeOk
    \/ CallResultTypeErr
    \/ CallAnd
    \/ CallAndThen
    \/ CallMap
    \/ CallMapErr
    \/ CallMapOr
    \/ CallMapOrElse
    \/ CallOr
    \/ CallOrElse
    \/ CallFlatten
    \/ CallInspect
    \/ CallInspectErr
    \/ CallIsOk
    \/ CallIsErr
    \/ CallIsOkAnd
    \/ CallIsErrAnd
    \/ CallUnwrap
    \/ CallUnwrapErr
    \/ CallUnwrapOr
    \/ CallUnwrapOrElse
    \/ CallExpect
    \/ CallExpectErr
    \/ CallResultOk
    \/ CallResultErr
    \/ CallJSONRoundTrip
    \/ CallMatch
    \/ CallMatchNested
    \/ CallTryCatchResult
    \/ CallTryCatchResultAsync
    \/ CallTryCatchResultPromise

Spec == Init /\ [][Next]_vars

(***************************************************************************)
(* Two promises passed as siblings.  asyncResultAnd(result, other) and     *)
(* asyncResultOr(result, other) are result.then(callback): the callback is *)
(* queued when `result` settles and runs later; when it returns the        *)
(* promise `other`, the returned promise follows `other`.  `result` and    *)
(* `other` settle in either order, before or after the call; `order`       *)
(* records the order in which the three promises settle.                   *)
(***************************************************************************)
\* what the promise passed as `who` settles to: an outcome, or a rejection
\* by the host
Settlements(who) ==
    IF who = "result"
    THEN {Fulfilled(ok(Num(n))) : n \in Nums}
             \cup {Fulfilled(err(Str("invalid"), Num(n))) : n \in Nums}
             \cup {Rejected(NewError("boom"))}
    ELSE {Fulfilled(o) : o \in Others} \cup {Rejected(NewError("other failed"))}

\* the call: each promise may have settled before it
StartRace(name) ==
    /\ racing' = name
    /\ pResult' \in Settlements("result") \cup {Unsettled}
    /\ pOther' \in Settlements("other") \cup {Unsettled}
    /\ pReturned' = Unsettled
    /\ reaction' = IF pResult'.state = "pending" THEN "waiting" ELSE "queued"
    /\ order' \in
          {sq \in {<<>>, <<"result">>, <<"other">>, <<"result", "other">>,
                   <<"other", "result">>} :
              /\ (\E i \in 1..Len(sq) : sq[i] = "result")
                    <=> pResult'.state # "pending"
              /\ (\E i \in 1..Len(sq) : sq[i] = "other")
                    <=> pOther'.state # "pending"}
    /\ UNCHANGED <<mainVars, asyncVars>>

CallAsyncAnd ==
    /\ racing = "none"
    /\ StartRace("and")

CallAsyncOr ==
    /\ racing = "none"
    /\ StartRace("or")

SettleResult ==
    /\ racing # "none"
    /\ pResult.state = "pending"
    /\ pResult' \in Settlements("result")
    /\ reaction' = "queued"
    /\ order' = Append(order, "result")
    /\ UNCHANGED <<racing, pOther, pReturned, mainVars, asyncVars>>

SettleOther ==
    /\ racing # "none"
    /\ pOther.state = "pending"
    /\ pOther' \in Settlements("other")
    /\ order' = Append(order, "other")
    /\ UNCHANGED <<racing, pResult, pReturned, reaction, mainVars, asyncVars>>

\* the callback of result.then runs: the returned promise is resolved with
\* what the callback returns, or rejected as `result` was; resolved with a
\* pending `other`, it stays pending and follows it
RunReaction ==
    /\ reaction = "queued"
    /\ LET c == IF racing = "and"
                THEN asyncResultAnd(pResult, pOther)
                ELSE asyncResultOr(pResult, pOther)
       IN  IF c.val.state = "pending"
           THEN /\ reaction' = "following"
                /\ UNCHANGED <<pReturned, order>>
           ELSE /\ reaction' = "done"
                /\ pReturned' = c.val
                /\ order' = Append(order, "returned")
    /\ UNCHANGED <<racing, pResult, pOther, mainVars, asyncVars>>

\* the promise followed has settled
FollowOther ==
    /\ reaction = "following"
    /\ pOther.state # "pending"
    /\ reaction' = "done"
    /\ pReturned' = pOther
    /\ order' = Append(order, "returned")
    /\ UNCHANGED <<racing, pResult, pOther, mainVars, asyncVars>>

NextRace ==
    \/ CallAsyncAnd
    \/ CallAsyncOr
    \/ SettleResult
    \/ SettleOther
    \/ RunReaction
    \/ FollowOther

SpecRace == Init /\ [][NextRace]_vars

(***************************************************************************)
(* The continuations of an asynchronous chain, step by step.  The wrapper  *)
(* asyncChain(initial) holds the promise `initial`; a method called on a   *)
(* wrapper registers a continuation on the promise it holds (a stage) and  *)
(* returns a new wrapper, or a promise, at once.  Stage k was called on    *)
(* the wrapper of stage `parent` (0: the wrapper of `initial`), so that    *)
(* the stages of one parent are branches and a stage and its parent are a  *)
(* chain.  A stage runs once the promise of its parent has settled: on the *)
(* matching branch it invokes its callback, waits for the promise the      *)
(* callback returned, and then settles its own promise `ret`.  `trace`     *)
(* is the order of the events: <<"settle", k>> the promise of stage k (0:  *)
(* `initial`) settles, <<"invoke", k>> the callback of stage k is called,  *)
(* <<"resolve", k>> the promise that callback returned settles.            *)
(***************************************************************************)
\* what the computation behind `initial` settles to
InitialSettlements ==
    {Fulfilled(ok(Num(1))), Fulfilled(err(Str("invalid"), Num(1))),
     Rejected(NewError("network"))}

\* the method calls: <<method, callback>>
StageCalls ==
    {<<"map", fn>> : fn \in {"double", "boom", "asyncBoom", "asyncNever"}}
        \cup {<<"andThen", fn>> : fn \in {"asyncWrapOk", "boom"}}
        \cup {<<"orElse", fn>> : fn \in {"asyncRecover", "boom"}}
        \cup {<<"inspect", fn>> : fn \in {"asyncValue", "boom"}}
        \cup {<<"isOkAnd", fn>> : fn \in {"asyncValue", "boom"}}
        \cup {<<"unwrapOrElse", fn>> : fn \in {"asyncValue", "boom"}}
        \cup {<<"mapErr", "asyncRetag">>, <<"inspectErr", "asyncValue">>,
              <<"mapOr", "asyncValue">>, <<"mapOrElse", "asyncValue">>,
              <<"isErrAnd", "asyncValue">>, <<"unwrapOr", "none">>,
              <<"isOk", "none">>, <<"match", "asyncValue">>}

StageArgs(fn) ==
    [NoArgs EXCEPT !.fn = fn, !.defaultValue = Num(0), !.defaultFn = "detailOf",
                   !.handlers = [ok |-> fn, err |-> "describeErr"]]

\* the methods of asyncChain, and asyncMatch applied to the promise a
\* wrapper exposes as `result`
AsyncCall(p, method, a) ==
    IF method = "match" THEN asyncMatch(p, a.handlers)
    ELSE asyncChain_method(p, method, a)

\* the promise a call returned, bare or in the new wrapper
StagePromise(c) == IF c.val.t = "asyncChain" THEN c.val.result ELSE c.val

\* a stage that reads the promise of the stage built before it
ParentPromise_latest(k) == IF k = 1 THEN pInitial ELSE stages[k - 1].ret

\* the promise `initial` the closures of stage k's wrapper hold
ParentPromise(k) ==
    IF stages[k].parent = 0 THEN pInitial ELSE stages[stages[k].parent].ret

\* a continuation that runs as soon as it is registered
Runnable_atonce(k) == TRUE

\* the continuation of stage k is run once the promise it was registered on
\* has settled
Runnable(k) == ParentPromise(k).state # "pending"

\* the call of stage k on the promise of its parent as it is now
StageCall(k) == AsyncCall(ParentPromise(k), stages[k].method, stages[k].a)

\* what the callback that stage k invoked completes as
CallbackOf(k) ==
    CallbackBody(stages[k].calls[1].fn, stages[k].calls[1].arg)

\* w.method(fn), for the wrapper w of `initial` or of a stage that returned
\* a wrapper: the continuation is registered and the call returns
CallAsyncMethod ==
    /\ Len(stages) < MaxStages
    /\ \E parent \in 0..Len(stages) : \E mc \in StageCalls :
           /\ parent > 0 => stages[parent].method \in
                  {"map", "mapErr", "andThen", "orElse", "inspect",
                   "inspectErr"}
           /\ stages' = Append(stages,
                  [calls |-> <<>>,
                   kind |-> AsyncCall(IF parent = 0 THEN pInitial
                                      ELSE stages[parent].ret,
                                      mc[1], StageArgs(mc[2])).kind,
                   a |-> StageArgs(mc[2]), method |-> mc[1],
                   ret |-> Unsettled, parent |-> parent,
                   phase |-> "waiting"])
    /\ UNCHANGED <<pInitial, trace, mainVars, raceVars>>

\* the computation behind `initial` completes, once
SettleInitial ==
    /\ pInitial.state = "pending"
    /\ pInitial' \in InitialSettlements
    /\ trace' = Append(trace, <<"settle", 0>>)
    /\ UNCHANGED <<stages, mainVars, raceVars>>

\* the continuation of stage k runs on the settled promise of its parent:
\* with no callback to call it settles its promise; else it calls the
\* callback and waits for what the callback returned
RunStage ==
    \E k \in 1..Len(stages) :
        /\ stages[k].phase = "waiting"
        /\ Runnable(k)
        /\ LET c == StageCall(k)
           IN  IF c.calls = <<>>
               THEN /\ stages' = [stages EXCEPT ![k].phase = "done",
                                                ![k].ret = StagePromise(c)]
                    /\ trace' = Append(trace, <<"settle", k>>)
               ELSE /\ stages' =
                          [stages EXCEPT
                              ![k].calls = c.calls,
                              ![k].phase =
                                  LET b == CallbackBody(c.calls[1].fn,
                                                        c.calls[1].arg)
                                  IN  IF b.kind = "return"
                                         /\ b.val.t = "promise"
                                      THEN "awaiting" ELSE "resuming"]
                    /\ trace' = Append(trace, <<"invoke", k>>)
        /\ UNCHANGED <<pInitial, mainVars, raceVars>>

\* the promise the callback of stage k returned settles
SettleCallback ==
    \E k \in 1..Len(stages) :
        /\ stages[k].phase = "awaiting"
        /\ CallbackOf(k).val.state # "pending"
        /\ stages' = [stages EXCEPT ![k].phase = "resuming"]
        /\ trace' = Append(trace, <<"resolve", k>>)
        /\ UNCHANGED <<pInitial, mainVars, raceVars>>

\* stage k resumes with what its callback gave and settles its promise
FinishStage ==
    \E k \in 1..Len(stages) :
        /\ stages[k].phase = "resuming"
        /\ stages' = [stages EXCEPT ![k].phase = "done",
                                    ![k].ret = StagePromise(StageCall(k))]
        /\ trace' = Append(trace, <<"settle", k>>)
        /\ UNCHANGED <<pInitial, mainVars, raceVars>>

NextAsync ==
    \/ CallAsyncMethod
    \/ SettleInitial
    \/ RunStage
    \/ SettleCallback
    \/ FinishStage

SpecAsync == Init /\ [][NextAsync]_vars

\* the host runs every queued continuation; the computation behind
\* `initial` and the promises the callbacks return settle unless they are
\* made never to
SpecAsyncLive ==
    /\ SpecAsync
    /\ WF_vars(SettleInitial)
    /\ WF_vars(RunStage)
    /\ WF_vars(SettleCallback)
    /\ WF_vars(FinishStage)

(***************************************************************************)
(* Vocabulary of the properties                                            *)
(***************************************************************************)
ConstructorOps ==
    {"ok(value)", "err(error, detail)", "resultType().ok", "resultType().err"}

OutcomeOps ==
    {"and", "andThen", "or", "orElse", "map", "mapErr", "flatten", "inspect",
     "inspectErr"}

ValueOps ==
    {"mapOr", "mapOrElse", "unwrapOr", "unwrapOrElse", "isOk", "isErr",
     "isOkAnd", "isErrAnd", "ok", "err"}

ThrowingOps == {"unwrap", "unwrapErr", "expect", "expectErr"}

\* the names the documents give the field of the variant tag
TagFields == {"type", "tag"}

\* the variant tag and the detail a Failure of this code carries
TagOf(f) == Get(f, "error")

DetailOf(f) == Get(f, "detail")

\* p is the error value made of the tag and the detail of the Failure f,
\* and of nothing else
IsPayloadOf(p, f) ==
    /\ p.t = "object"
    /\ \E k \in TagFields :
          /\ k \in Keys(p)
          /\ Keys(p) \subseteq {k, "detail"}
          /\ Get(p, k) = TagOf(f)
          /\ Get(p, "detail") = DetailOf(f)

\* exactly the payload of the discriminant is there
PayloadMatchesDiscriminant(x) ==
    /\ IsOutcome(x)
    /\ Get(x, "ok") \in {Bool(TRUE), Bool(FALSE)}
    /\ Get(x, "ok") = Bool(TRUE) =>
          "value" \in Keys(x) /\ Get(x, "error") = Undefined
    /\ Get(x, "ok") = Bool(FALSE) =>
          /\ "error" \in Keys(x) /\ Get(x, "error") # Undefined
          /\ Get(x, "value") = Undefined

(***************************************************************************)
(* C1: every Failure built by err(tag, detail) or by the err constructor   *)
(* of resultType() has the shape { ok: false, error: { <tag field>: tag,   *)
(* detail: detail } }: tag and detail are nested together under the single *)
(* field `error` and are not flat top-level `error` / `detail` fields; a   *)
(* variant declared undefined is built with no detail argument and still   *)
(* carries its tag.                                                        *)
(***************************************************************************)
C1_FailureNestsTagAndDetail ==
    op \in {"err(error, detail)", "resultType().err"} =>
        /\ sync.kind = "return"
        /\ Get(sync.val, "ok") = Bool(FALSE)
        /\ "detail" \notin Keys(sync.val)
        /\ \E k \in TagFields :
              /\ Get(Get(sync.val, "error"), k) = args.error
              /\ Get(Get(sync.val, "error"), "detail") = args.detail

(***************************************************************************)
(* C2: in every outcome the constructors produce, and in every outcome     *)
(* map, mapErr, and, andThen, or, orElse, flatten, inspect and inspectErr  *)
(* return on such outcomes with callbacks returning well-formed values:    *)
(* ok true means `value` is there and `error` is undefined, ok false means *)
(* `error` is there and `value` is undefined; never both, never neither.   *)
(***************************************************************************)
C2_PayloadMatchesDiscriminant ==
    /\ PayloadMatchesDiscriminant(cur)
    /\ op \in ConstructorOps \cup OutcomeOps /\ sync.kind = "return" =>
          PayloadMatchesDiscriminant(sync.val)

C2_Witness ==
    /\ op = "andThen" /\ args.fn = "reject"
    /\ IsSuccess(input) /\ sync.kind = "return" /\ IsFailure(sync.val)

(***************************************************************************)
(* C3: resultUnwrap(r) and chain(r).unwrap() return v on Success(v); on a  *)
(* Failure they throw exactly the Failure payload, the error value made of *)
(* the tag and the detail, not an Error object and not a value with other  *)
(* fields.                                                                 *)
(***************************************************************************)
C3_UnwrapThrowsPayload ==
    op = "unwrap" =>
        /\ IsSuccess(input) =>
              /\ sync = Return(Get(input, "value"), <<>>)
              /\ chained = Return(Get(input, "value"), <<>>)
        /\ IsFailure(input) =>
              /\ sync.kind = "throw" /\ IsPayloadOf(sync.val, input)
              /\ chained.kind = "throw" /\ IsPayloadOf(chained.val, input)

(***************************************************************************)
(* C4: resultExpect(r, msg) returns v on Success(v) and throws an Error    *)
(* with message msg on a Failure; resultExpectErr(r, msg) and              *)
(* resultUnwrapErr(r) return the Failure payload (tag and detail) on a     *)
(* Failure and throw an Error on a Success, with message msg for expectErr *)
(* and "Result is ok; expected an error" for unwrapErr.                    *)
(***************************************************************************)
C4_WrongBranchThrowsRightBranchReturns ==
    /\ op = "expect" =>
          /\ IsSuccess(input) => sync = Return(Get(input, "value"), <<>>)
          /\ IsFailure(input) => sync = Throw(NewError(args.msg), <<>>)
    /\ op = "expectErr" =>
          /\ IsFailure(input) =>
                sync.kind = "return" /\ IsPayloadOf(sync.val, input)
          /\ IsSuccess(input) => sync = Throw(NewError(args.msg), <<>>)
    /\ op = "unwrapErr" =>
          /\ IsFailure(input) =>
                sync.kind = "return" /\ IsPayloadOf(sync.val, input)
          /\ IsSuccess(input) =>
                sync = Throw(NewError("Result is ok; expected an error"), <<>>)

(***************************************************************************)
(* C5: short circuit: on a Failure f, resultMap(f, fn), resultAndThen(f,   *)
(* fn) and resultAnd(f, other) return an outcome equal to f, and fn is     *)
(* never invoked.                                                          *)
(***************************************************************************)
C5_FailureShortCircuits ==
    op \in {"map", "andThen", "and"} /\ IsFailure(input) =>
        /\ sync.kind = "return"
        /\ sync.val = input
        /\ TagOf(sync.val) = TagOf(input) /\ DetailOf(sync.val) = DetailOf(input)
        /\ sync.calls = <<>>

C5_Witness ==
    /\ op = "map" /\ args.fn = "double"
    /\ IsFailure(input) /\ DetailOf(input) = Num(1)

(***************************************************************************)
(* C6: dual short circuit: on a Success s, resultMapErr(s, fn),            *)
(* resultOrElse(s, fn) and resultOr(s, other) return an outcome equal to   *)
(* s, and fn is never invoked.                                             *)
(***************************************************************************)
C6_SuccessShortCircuits ==
    op \in {"mapErr", "orElse", "or"} /\ IsSuccess(input) =>
        /\ sync.kind = "return"
        /\ sync.val = input
        /\ Get(sync.val, "value") = Get(input, "value")
        /\ sync.calls = <<>>

C6_Witness ==
    /\ op = "or" /\ IsSuccess(input) /\ IsFailure(args.other)
    /\ Get(input, "value") = Num(1)

(***************************************************************************)
(* C7: identity laws: resultMap(ok(v), identity) equals ok(v), and         *)
(* resultAndThen(ok(v), x => ok(x)) equals ok(v).                          *)
(***************************************************************************)
C7_IdentityLaws ==
    /\ op = "map" /\ args.fn = "identity" /\ IsSuccess(input) =>
          sync.kind = "return" /\ sync.val = ok(Get(input, "value"))
                               /\ sync.val = input
    /\ op = "andThen" /\ args.fn = "wrapOk" /\ IsSuccess(input) =>
          sync.kind = "return" /\ sync.val = ok(Get(input, "value"))
                               /\ sync.val = input

C7_Witness ==
    /\ op = "andThen" /\ args.fn = "wrapOk"
    /\ IsSuccess(input) /\ Get(input, "value") = Str("hello")

(***************************************************************************)
(* C8: flatten laws: resultFlatten(ok(ok(v))) equals ok(v),                *)
(* resultFlatten(ok(failure(t, d))) equals failure(t, d) and               *)
(* resultFlatten(failure(t, d)) equals failure(t, d): exactly one level of *)
(* nesting is removed and an outer Failure is never altered.               *)
(***************************************************************************)
C8_FlattenLaws ==
    op = "flatten" =>
        /\ sync.kind = "return"
        /\ IsFailure(input) => sync.val = input
        /\ IsSuccess(input) =>
              /\ input = ok(sync.val)
              /\ IsSuccess(sync.val) => sync.val = ok(Get(sync.val, "value"))
              /\ IsFailure(sync.val) =>
                    sync.val = err(TagOf(sync.val), DetailOf(sync.val))

\* a Success of a Success of a Success loses one level only
C8_Witness ==
    /\ op = "flatten" /\ IsSuccess(input)
    /\ IsSuccess(sync.val) /\ IsSuccess(Get(sync.val, "value"))

(***************************************************************************)
(* C9: chain/function equivalence: chain(r).C(a).result equals             *)
(* resultC(r, a) for the combinators that return an outcome, chain(r).C(a) *)
(* equals resultC(r, a) for those that return a value, the same value is   *)
(* thrown by unwrap, unwrapErr, expect and expectErr, and chain(r).result  *)
(* equals r.                                                               *)
(***************************************************************************)
C9_ChainEqualsFunction ==
    /\ chain(cur).result = cur
    /\ op \in OutcomeOps =>
          /\ sync.kind = "return" =>
                /\ chained.kind = "return"
                /\ chained.val.t = "chain"
                /\ chained.val.result = sync.val
          /\ sync.kind = "throw" => chained.kind = "throw"
                                    /\ chained.val = sync.val
    /\ op \in ValueOps \cup ThrowingOps =>
          chained.kind = sync.kind /\ chained.val = sync.val

C9_Witness ==
    /\ op = "map" /\ args.fn = "double" /\ IsSuccess(input)
    /\ chained.kind = "return" /\ chained.val.result = ok(Num(2))

(***************************************************************************)
(* C10: async/sync equivalence: with synchronous callbacks, awaiting       *)
(* asyncResultC(Promise.resolve(r), ...) gives what resultC(r, ...) gives: *)
(* an equal outcome, an equal value, or for unwrap, unwrapErr, expect and  *)
(* expectErr a rejection with the value the synchronous function throws.   *)
(***************************************************************************)
C10_AsyncEqualsSync ==
    op \in OutcomeOps \cup ValueOps \cup ThrowingOps =>
        deferred.kind = sync.kind /\ deferred.val = sync.val

C10_Witness ==
    /\ op = "unwrap" /\ IsFailure(input)
    /\ deferred.kind = "throw" /\ deferred.val = input

(***************************************************************************)
(* C11: serialization round trip: for every outcome r built by the         *)
(* constructors (a Success of a plain-data value, a Failure of a declared  *)
(* tag with or without a detail), deserializing the serialized form of r   *)
(* gives an outcome equal to r: the same `ok`, value, tag and detail, and  *)
(* the same set of fields present.                                         *)
(***************************************************************************)
JSONData == PlainValues \ {Undefined}

ConstructedOutcomes ==
    {ok(v) : v \in JSONData}
        \cup UNION {{err(Str(tag), d), errConstructor(Str(tag), <<d>>)} :
                        tag \in Tags \ {"empty"}, d \in JSONData}
        \cup {err(Str("empty"), Undefined), errConstructor(Str("empty"), <<>>)}

C11_RoundTripEqual ==
    op = "JSON" /\ input \in ConstructedOutcomes =>
        /\ sync.kind = "return"
        /\ Keys(sync.val) = Keys(input)
        /\ Get(sync.val, "ok") = Get(input, "ok")
        /\ Get(sync.val, "value") = Get(input, "value")
        /\ TagOf(sync.val) = TagOf(input)
        /\ DetailOf(sync.val) = DetailOf(input)

(***************************************************************************)
(* C12: tryCatchResult(fn, conv) invokes fn exactly once; when fn returns  *)
(* v the result is Success(v) and conv is not invoked; when fn throws e    *)
(* the result is exactly conv(e), a Failure, conv is invoked exactly once  *)
(* with e, and e does not escape to the caller.                            *)
(***************************************************************************)
C12_AdapterConvertsThrow ==
    op = "tryCatchResult" =>
        LET c == CallbackBody(args.fn, Undefined)
            fnCall == [fn |-> args.fn, arg |-> Undefined]
        IN  /\ Len(SelectSeq(sync.calls, LAMBDA x : x.fn = args.fn)) = 1
            /\ sync.calls[1] = fnCall
            /\ c.kind = "return" =>
                  /\ sync = Return(ok(c.val), <<fnCall>>)
                  /\ IsSuccess(sync.val) /\ Get(sync.val, "value") = c.val
            /\ c.kind = "throw" =>
                  LET e == CallbackBody(args.errFn, c.val)
                  IN  /\ sync.calls = <<fnCall, [fn |-> args.errFn, arg |-> c.val]>>
                      /\ sync.kind = e.kind /\ sync.val = e.val
                      /\ e.kind = "return" => IsFailure(sync.val)
                      /\ ~(sync.kind = "throw" /\ sync.val = c.val)

C12_Witness ==
    /\ op = "tryCatchResult" /\ args.fn = "parseInvalid"
    /\ args.errFn = "toParseError"
    /\ sync.kind = "return" /\ IsFailure(sync.val)
    /\ TagOf(sync.val) = Str("parse_error")
    /\ DetailOf(sync.val) = Str("Error: Unexpected token")

(***************************************************************************)
(* C13: tryCatchResultAsync(fn, conv) and tryCatchResultPromise(p, conv)   *)
(* return a promise that resolves to Success(v) when the computation       *)
(* resolves to v, and that resolves (does not reject) to the Failure       *)
(* conv(e) when the computation rejects with e or, for                     *)
(* tryCatchResultAsync, when fn throws e before it returns a promise;      *)
(* provided conv does not throw, the returned promise never rejects.       *)
(***************************************************************************)
C13_AsyncAdaptersResolve ==
    op \in {"tryCatchResultAsync", "tryCatchResultPromise"} =>
        LET c == IF op = "tryCatchResultAsync"
                 THEN Await(CallbackBody(args.fn, Undefined))
                 ELSE Await(Return(args.prom, <<>>))
            e == CallbackBody(args.errFn, c.val)
        IN  /\ sync.kind = "return" /\ sync.val.t = "promise"
            /\ c.kind = "return" =>
                  /\ sync.val = Fulfilled(ok(c.val))
                  /\ deferred.kind = "return" /\ IsSuccess(deferred.val)
                  /\ Get(deferred.val, "value") = c.val
            /\ c.kind = "throw" /\ e.kind = "return" =>
                  /\ sync.val = Fulfilled(e.val)
                  /\ deferred.kind = "return" /\ deferred.val = e.val
                  /\ IsFailure(deferred.val)
            /\ e.kind = "return" =>
                  sync.val.state # "rejected" /\ deferred.kind # "throw"

C13_Witness ==
    /\ op = "tryCatchResultAsync" /\ args.fn = "throwString"
    /\ args.errFn = "toParseError"
    /\ deferred.kind = "return"
    /\ deferred.val = err(Str("parse_error"), Str("oops"))

(***************************************************************************)
(* C14: match(r, {ok, err}) invokes exactly one of the two handlers,       *)
(* exactly once: the ok handler with v when r is Success(v), the err       *)
(* handler when r is a Failure, and returns what that handler returns; the *)
(* err handler receives the Failure payload, whose own two fields, the tag *)
(* field and `detail`, give the tag and the detail.                        *)
(***************************************************************************)
C14_MatchCallsOneHandler ==
    op = "match" =>
        /\ Len(sync.calls) = 1
        /\ LET call == sync.calls[1]
               c == CallbackBody(call.fn, call.arg)
           IN  /\ sync.kind = c.kind /\ sync.val = c.val
               /\ IsSuccess(input) =>
                     call = [fn |-> args.handlers.ok,
                             arg |-> Get(input, "value")]
               /\ IsFailure(input) =>
                     /\ call.fn = args.handlers.err
                     /\ IsPayloadOf(call.arg, input)

(***************************************************************************)
(* C15: matchNested(r, {ok, err: handlersByTag}) invokes the ok handler    *)
(* with v when r is Success(v); when r is a Failure with tag t and detail  *)
(* d it invokes exactly the handler registered under t, passing it d       *)
(* alone, and returns that handler's result; no handler of another tag is  *)
(* invoked.  For failure("negative", -3) with the handlers                 *)
(* {invalid_number, negative: n => "neg:" + n} the result is "neg:-3".     *)
(***************************************************************************)
C15_MatchNestedDispatchesByTag ==
    op = "matchNested" =>
        /\ Len(sync.calls) = 1
        /\ LET call == sync.calls[1]
               c == CallbackBody(call.fn, call.arg)
           IN  /\ sync.kind = c.kind /\ sync.val = c.val
               /\ IsSuccess(input) =>
                     call = [fn |-> args.handlers.ok,
                             arg |-> Get(input, "value")]
               /\ IsFailure(input) =>
                     call = [fn |-> args.handlers.err[TagOf(input).s],
                             arg |-> DetailOf(input)]
        /\ input = err(Str("negative"), Num(0 - 3)) =>
              sync = Return(Str("neg:-3"),
                            <<[fn |-> "neg", arg |-> Num(0 - 3)]>>)

C15_Witness ==
    /\ op = "matchNested" /\ input = err(Str("negative"), Num(0 - 3))
    /\ args.handlers = ExampleHandlers
    /\ sync.kind = "return" /\ sync.val = Str("neg:-3")

(***************************************************************************)
(* C16: resultInspect(r, fn) invokes fn exactly once with v when r is      *)
(* Success(v) and never when r is a Failure; resultInspectErr(r, fn)       *)
(* invokes fn exactly once with the Failure payload when r is a Failure    *)
(* and never when r is a Success; in all four cases the outcome returned   *)
(* is r unchanged, whatever fn returns.                                    *)
(***************************************************************************)
C16_InspectReturnsInput ==
    /\ op = "inspect" =>
          /\ IsSuccess(input) =>
                /\ sync.calls = <<[fn |-> args.fn, arg |-> Get(input, "value")]>>
                /\ CallbackBody(args.fn, Get(input, "value")).kind = "return"
                      => sync.kind = "return" /\ sync.val = input
          /\ IsFailure(input) => sync = Return(input, <<>>)
    /\ op = "inspectErr" =>
          /\ IsFailure(input) =>
                /\ Len(sync.calls) = 1
                /\ sync.calls[1].fn = args.fn
                /\ IsPayloadOf(sync.calls[1].arg, input)
                /\ CallbackBody(args.fn, sync.calls[1].arg).kind = "return"
                      => sync.kind = "return" /\ sync.val = input
          /\ IsSuccess(input) => sync = Return(input, <<>>)

(***************************************************************************)
(* C17 as stated: every synchronous combinator other than unwrap,          *)
(* unwrapErr, expect and expectErr returns normally for every input        *)
(* outcome and every callback and never raises an exception to its caller. *)
(***************************************************************************)
C17_NeverRaises ==
    op \in OutcomeOps \cup ValueOps => sync.kind = "return"

(***************************************************************************)
(* C17 amended: such a combinator raises no exception of its own: it       *)
(* returns normally whenever the callback it invokes returns normally (or  *)
(* it invokes none), and the only exception that reaches its caller is the *)
(* one the callback it invoked has thrown, passed on unchanged.            *)
(***************************************************************************)
C17_RaisesOnlyWhatCallbackThrows ==
    op \in OutcomeOps \cup ValueOps =>
        /\ sync.kind \in {"return", "throw"}
        /\ sync.kind = "throw" =>
              /\ sync.calls # <<>>
              /\ LET call == sync.calls[Len(sync.calls)]
                 IN  CallbackBody(call.fn, call.arg) = Throw(sync.val, <<>>)
        /\ (\A i \in 1..Len(sync.calls) :
               CallbackBody(sync.calls[i].fn, sync.calls[i].arg).kind = "return")
              => sync.kind = "return"

C17_Witness ==
    /\ op = "mapErr" /\ args.fn = "boom" /\ IsFailure(input)
    /\ sync = Throw(NewError("boom"), <<[fn |-> "boom", arg |-> input]>>)

(***************************************************************************)
(* C18: resultOk(r) returns v when r is Success(v) and null when r is a    *)
(* Failure; resultErr(r) returns null when r is a Success and, when r is a *)
(* Failure, the Failure payload made of exactly the tag and the detail,    *)
(* without the `ok` discriminant.                                          *)
(***************************************************************************)
C18_AccessorsReturnPayloadOrNull ==
    /\ op = "ok" =>
          /\ IsSuccess(input) => sync = Return(Get(input, "value"), <<>>)
          /\ IsFailure(input) => sync = Return(Null, <<>>)
    /\ op = "err" =>
          /\ IsSuccess(input) => sync = Return(Null, <<>>)
          /\ IsFailure(input) =>
                /\ sync.kind = "return"
                /\ IsPayloadOf(sync.val, input)
                /\ "ok" \notin Keys(sync.val)

Settled(p) == p.state # "pending"

\* the branch on which the combinator keeps `result`
KeepsResult == IF racing = "and" THEN IsFailure(pResult.v)
               ELSE IsSuccess(pResult.v)

C20_SiblingsAreNotRaced ==
    /\ Settled(pReturned) => Settled(pResult)
    /\ racing # "none" /\ pResult.state = "fulfilled" =>
          IF KeepsResult
          THEN /\ reaction # "following"
               /\ reaction = "done" => pReturned = Fulfilled(pResult.v)
               /\ Settled(pReturned) => pReturned = Fulfilled(pResult.v)
          ELSE /\ Settled(pReturned) => Settled(pOther) /\ pReturned = pOther
               /\ reaction = "done" => pReturned = pOther

\* `other` was rejected before `result` resolved to a Failure
C20_Witness ==
    /\ racing = "and" /\ order = <<"other", "result", "returned">>
    /\ pOther.state = "rejected"
    /\ IsFailure(pResult.v) /\ pReturned = Fulfilled(pResult.v)

(***************************************************************************)
(* C23: wrappers are stateless and never modified by use: after a method   *)
(* call on a Chain or AsyncChain wrapper w, w.result is still exactly the  *)
(* outcome (or promise) w was constructed with; a method returns a new     *)
(* wrapper or a plain value; the input outcome is not changed; and the     *)
(* same method called again on w with the same arguments gives an equal    *)
(* result.                                                                 *)
(***************************************************************************)
ChainOps == OutcomeOps \cup ValueOps \cup ThrowingOps

SuccessBranchOps == {"map", "andThen", "and", "inspect", "flatten"}

C24_FailureForwardedAlongChain ==
    [][/\ IsFailure(cur) /\ op' \in SuccessBranchOps =>
              /\ cur' = cur
              /\ TagOf(cur') = TagOf(cur) /\ DetailOf(cur') = DetailOf(cur)
              /\ sync' = Return(cur, <<>>)
              /\ chained' = Return(chain(cur), <<>>)
              /\ achained' = Return(asyncChain(Fulfilled(cur)), <<>>)
              /\ deferred' = Return(cur, <<>>)
       /\ IsFailure(cur) /\ op' \in ChainOps /\ cur' # cur =>
              op' \in {"or", "orElse", "mapErr"}]_vars

\* the third success-branch combinator in a row on a Failure
C24_Witness ==
    /\ steps = 3 /\ op = "inspect" /\ args.fn = "log"
    /\ IsFailure(input) /\ cur = input /\ DetailOf(cur) = Num(1)
    /\ achained = Return(asyncChain(Fulfilled(input)), <<>>)

(***************************************************************************)
(* C26: async extraction reports wrong-branch use as a rejection, never as *)
(* a synchronous throw: asyncResultUnwrap and asyncResultExpect over a     *)
(* promise that resolves to a Failure return a promise that rejects, with  *)
(* the Failure payload for unwrap and with an Error of message msg for     *)
(* expect; asyncResultUnwrapErr and asyncResultExpectErr over a promise    *)
(* that resolves to a Success return a promise that rejects with an Error; *)
(* on the right branch they resolve to the value or to the Failure         *)
(* payload.                                                                *)
(***************************************************************************)
C26_AsyncExtractionRejects ==
    op \in ThrowingOps =>
        /\ achained.kind = "return" /\ achained.val.t = "promise"
        /\ op = "unwrap" =>
              /\ IsSuccess(input) =>
                    achained.val = Fulfilled(Get(input, "value"))
              /\ IsFailure(input) =>
                    /\ achained.val.state = "rejected"
                    /\ IsPayloadOf(achained.val.v, input)
        /\ op = "expect" =>
              /\ IsSuccess(input) =>
                    achained.val = Fulfilled(Get(input, "value"))
              /\ IsFailure(input) =>
                    achained.val = Rejected(NewError(args.msg))
        /\ op \in {"unwrapErr", "expectErr"} =>
              /\ IsSuccess(input) =>
                    /\ achained.val.state = "rejected"
                    /\ achained.val.v.t = "Error"
              /\ IsFailure(input) =>
                    /\ achained.val.state = "fulfilled"
                    /\ IsPayloadOf(achained.val.v, input)

(***************************************************************************)
(* C29 as stated: resultOk(r) is null if and only if r is a Failure, and   *)
(* resultErr(r) is null if and only if r is a Success, for every success   *)
(* value including null and undefined.                                     *)
(***************************************************************************)
C29_NullIdentifiesBranch ==
    /\ op = "ok" =>
          /\ sync.val = Null <=> IsFailure(input)
          /\ chained.val = Null <=> IsFailure(input)
    /\ op = "err" => (sync.val = Null <=> IsSuccess(input))

(***************************************************************************)
(* C29 amended: resultErr(r) is null if and only if r is a Success;        *)
(* resultOk(r) is null when r is a Failure and is v when r is Success(v),  *)
(* so it is null if and only if r is a Failure or r is Success(null).      *)
(***************************************************************************)
C29_NullFromOkIsFailureOrNullValue ==
    /\ op = "ok" =>
          /\ sync.kind = "return" /\ chained = sync /\ deferred = sync
          /\ IsFailure(input) => sync.val = Null
          /\ IsSuccess(input) => sync.val = Get(input, "value")
          /\ sync.val = Null <=>
                (IsFailure(input) \/ input = ok(Null))
    /\ op = "err" =>
          /\ sync.kind = "return" /\ chained = sync /\ deferred = sync
          /\ sync.val = Null <=> IsSuccess(input)

C29_Witness ==
    /\ op = "ok" /\ input = ok(Null)
    /\ sync = Return(Null, <<>>) /\ chained = Return(Null, <<>>)

(***************************************************************************)
(* Vocabulary of the properties of an asynchronous chain                   *)
(***************************************************************************)
StageIds == 1..Len(stages)

\* the promise held by the wrapper stage k was called on
PromiseOf(j) == IF j = 0 THEN pInitial ELSE stages[j].ret

RECURSIVE Ancestors(_)
\* the stages before k in its chain, and 0 for `initial`
Ancestors(k) ==
    IF k = 0 THEN {}
    ELSE {stages[k].parent} \cup Ancestors(stages[k].parent)

Invoked(k) == stages[k].calls # <<>>

\* the callback stage k invoked returned a promise
ReturnedPromise(k) ==
    /\ Invoked(k)
    /\ CallbackOf(k).kind = "return" /\ CallbackOf(k).val.t = "promise"

Happened(e) == \E i \in 1..Len(trace) : trace[i] = e

Pos(e) == CHOOSE i \in 1..Len(trace) : trace[i] = e

\* e2 does not occur unless e1 has occurred before it
Before(e1, e2) == Happened(e2) => Happened(e1) /\ Pos(e1) < Pos(e2)

(***************************************************************************)
(* C21: host rejections are never converted into Failures by the           *)
(* combinators: when the promise an async combinator was called on rejects *)
(* with reason e, the promise the combinator returned rejects with the     *)
(* same e, no callback of the combinator is invoked, and the promise never *)
(* resolves to a Failure; this holds through any number of chained         *)
(* combinators.                                                            *)
(***************************************************************************)
C21_RejectionPassesThrough ==
    \A k \in StageIds :
        /\ PromiseOf(stages[k].parent).state = "rejected" =>
              /\ stages[k].calls = <<>>
              /\ stages[k].phase \in {"waiting", "done"}
              /\ stages[k].phase = "done" =>
                    /\ stages[k].ret = PromiseOf(stages[k].parent)
                    /\ stages[k].ret.state = "rejected"
                    /\ ~IsFailure(stages[k].ret.v)
        /\ pInitial.state = "rejected" =>
              /\ stages[k].calls = <<>>
              /\ ~Happened(<<"invoke", k>>)
              /\ Settled(stages[k].ret) => stages[k].ret = pInitial

\* the rejection of `initial` has passed through map and then asyncMatch
C21_Witness ==
    /\ Len(stages) = 2 /\ pInitial = Rejected(NewError("network"))
    /\ stages[1].method = "map" /\ stages[2].method = "match"
    /\ stages[2].parent = 1 /\ stages[2].phase = "done"
    /\ stages[2].ret = Rejected(NewError("network"))

(***************************************************************************)
(* C22: call-order execution within one async chain                        *)
(* asyncChain(p).C1(f1).C2(f2)...: no callback is invoked before p has     *)
(* resolved; a callback is not invoked before the value or promise         *)
(* returned by the callback before it in the chain has resolved; the       *)
(* callbacks that are invoked are invoked in call order; and the promise   *)
(* of a stage resolves only after the callbacks invoked up to it have      *)
(* resolved.                                                               *)
(***************************************************************************)
C22_CallOrderExecution ==
    \A k \in StageIds :
        /\ Invoked(k) <=> Happened(<<"invoke", k>>)
        /\ Before(<<"settle", 0>>, <<"invoke", k>>)
        /\ Before(<<"settle", stages[k].parent>>, <<"invoke", k>>)
        /\ Invoked(k) => PromiseOf(stages[k].parent).state = "fulfilled"
        /\ \A j \in Ancestors(k) \ {0} :
              /\ Before(<<"settle", j>>, <<"settle", k>>)
              /\ Invoked(j) =>
                    /\ Before(<<"invoke", j>>, <<"invoke", k>>)
                    /\ Before(<<"invoke", j>>, <<"settle", k>>)
                    /\ ReturnedPromise(j) =>
                          /\ Before(<<"resolve", j>>, <<"invoke", k>>)
                          /\ Before(<<"resolve", j>>, <<"settle", k>>)
        /\ Settled(stages[k].ret) <=> Happened(<<"settle", k>>)
        /\ Invoked(k) =>
              /\ Before(<<"invoke", k>>, <<"settle", k>>)
              /\ ReturnedPromise(k) =>
                    Before(<<"resolve", k>>, <<"settle", k>>)

\* a chain of two asynchronous callbacks that has run to its end
C22_Witness ==
    /\ Len(stages) = 2 /\ stages[2].parent = 1
    /\ stages[1].method = "andThen" /\ stages[2].method = "mapOr"
    /\ trace = <<<<"settle", 0>>, <<"invoke", 1>>, <<"resolve", 1>>,
                 <<"settle", 1>>, <<"invoke", 2>>, <<"resolve", 2>>,
                 <<"settle", 2>>>>
    /\ stages[2].ret = Fulfilled(Num(42))

(***************************************************************************)
(* C25: deferred callbacks are awaited, and only on the matching branch:   *)
(* for asyncResultMap, MapErr, MapOr, MapOrElse, AndThen, OrElse, Inspect, *)
(* InspectErr, IsOkAnd, IsErrAnd and UnwrapOrElse, when the callback is    *)
(* invoked and returns a promise, the promise the combinator returned      *)
(* settles only after that promise settles and is computed from its        *)
(* resolved value, never from the pending promise itself; on the branch    *)
(* that is not the callback's, the callback is not invoked and the         *)
(* combinator resolves right after its input resolves.                     *)
(***************************************************************************)
SuccessCallbackOps == {"map", "andThen", "inspect", "mapOr", "isOkAnd"}

FailureCallbackOps ==
    {"mapErr", "orElse", "inspectErr", "isErrAnd", "unwrapOrElse"}

\* stage k has a callback for the branch of the outcome o
Matching(k, o) ==
    \/ stages[k].method \in SuccessCallbackOps /\ IsSuccess(o)
    \/ stages[k].method \in FailureCallbackOps /\ IsFailure(o)
    \/ stages[k].method = "mapOrElse"

\* what stage k resolves to, from the settled promise q of its callback
FromResolved(k, q) ==
    IF q.state = "rejected" THEN q
    ELSE CASE stages[k].method = "map" -> Fulfilled(ok(q.v))
           [] stages[k].method \in {"inspect", "inspectErr"} ->
                 PromiseOf(stages[k].parent)
           [] OTHER -> Fulfilled(q.v)

C25_CallbackPromiseAwaited ==
    \A k \in StageIds :
        stages[k].method \in
            SuccessCallbackOps \cup FailureCallbackOps \cup {"mapOrElse"} =>
        /\ ReturnedPromise(k) =>
              /\ stages[k].phase = "awaiting" => ~Settled(stages[k].ret)
              /\ ~Settled(CallbackOf(k).val) => ~Settled(stages[k].ret)
              /\ Settled(stages[k].ret) =>
                    /\ Happened(<<"resolve", k>>)
                    /\ Pos(<<"resolve", k>>) < Pos(<<"settle", k>>)
                    /\ stages[k].ret = FromResolved(k, CallbackOf(k).val)
                    /\ stages[k].ret.v.t # "promise"
                    /\ Get(stages[k].ret.v, "value").t # "promise"
        /\ PromiseOf(stages[k].parent).state = "fulfilled"
              /\ stages[k].phase # "waiting" =>
              /\ Invoked(k) <=> Matching(k, PromiseOf(stages[k].parent).v)
              /\ ~Matching(k, PromiseOf(stages[k].parent).v) =>
                    /\ stages[k].phase = "done" /\ Settled(stages[k].ret)
                    /\ ~Happened(<<"invoke", k>>)
                    /\ ~Happened(<<"resolve", k>>)

\* isOkAnd returns the promise of its callback, which the promise of the
\* async function follows
C25_Witness ==
    /\ Len(stages) = 1 /\ stages[1].method = "isOkAnd"
    /\ stages[1].calls = <<[fn |-> "asyncValue", arg |-> Num(1)]>>
    /\ trace = <<<<"settle", 0>>, <<"invoke", 1>>, <<"resolve", 1>>,
                 <<"settle", 1>>>>
    /\ stages[1].ret = Fulfilled(Num(42))

(***************************************************************************)
(* C27: async chains run to completion: when the input promise settles and *)
(* every invoked callback returns a value or a promise that settles, the   *)
(* promise of every stage of the chain eventually settles (resolves or     *)
(* rejects); a stage stays pending only while a callback of its chain has  *)
(* returned a promise that never settles; and a settled promise is not     *)
(* taken back.                                                             *)
(***************************************************************************)
\* stage k, or a stage before it in its chain, waits for a promise that
\* its callback returned and that never settles
WaitsForever(k) ==
    \E j \in (Ancestors(k) \cup {k}) \ {0} :
        /\ stages[j].phase = "awaiting"
        /\ CallbackOf(j).val.state = "pending"

C28_CallbackThrowRejects ==
    \A k \in StageIds :
        /\ stages[k].kind = "return"
        /\ Invoked(k) /\ CallbackOf(k).kind = "throw" =>
              /\ stages[k].phase \in {"resuming", "done"}
              /\ Settled(stages[k].ret) =>
                    stages[k].ret = Rejected(CallbackOf(k).val)
              /\ \A j \in StageIds :
                    k \in Ancestors(j) =>
                        /\ stages[j].calls = <<>>
                        /\ ~Happened(<<"invoke", j>>)
                        /\ Settled(stages[j].ret) =>
                              stages[j].ret = Rejected(CallbackOf(k).val)

C28_Witness ==
    /\ Len(stages) = 2 /\ stages[2].parent = 1
    /\ stages[1].method = "andThen"
    /\ stages[1].calls = <<[fn |-> "boom", arg |-> Num(1)]>>
    /\ stages[1].ret = Rejected(NewError("boom"))
    /\ stages[2].method = "unwrapOrElse" /\ stages[2].calls = <<>>
    /\ stages[2].ret = Rejected(NewError("boom"))

(***************************************************************************)
(* C30: branching from one async wrapper is interference-free: the         *)
(* continuations built from the same wrapper w each observe the same       *)
(* resolved outcome of w.result under every interleaving, the computation  *)
(* behind w.result is not started again, and what one continuation         *)
(* resolves to depends on that outcome and on its own method and callback  *)
(* only, not on the callbacks, the completion order or the rejection of    *)
(* another.                                                                *)
(***************************************************************************)
Occurrences(e) == Cardinality({i \in 1..Len(trace) : trace[i] = e})

\* the argument a callback receives from the outcome o
ArgumentFrom(o) == IF IsSuccess(o) THEN Get(o, "value") ELSE o

C30_BranchesDoNotInterfere ==
    /\ Occurrences(<<"settle", 0>>) <= 1
    /\ Settled(pInitial) <=> Happened(<<"settle", 0>>)
    /\ \A k \in StageIds :
          /\ Occurrences(<<"settle", stages[k].parent>>) <= 1
          /\ Occurrences(<<"invoke", k>>) <= 1
          /\ Invoked(k) =>
                /\ PromiseOf(stages[k].parent).state = "fulfilled"
                /\ stages[k].calls[1].arg =
                       ArgumentFrom(PromiseOf(stages[k].parent).v)
          /\ Settled(stages[k].ret) =>
                stages[k].ret =
                    StagePromise(AsyncCall(PromiseOf(stages[k].parent),
                                           stages[k].method, stages[k].a))
          /\ \A j \in StageIds :
                stages[j].parent = stages[k].parent
                    /\ Invoked(j) /\ Invoked(k)
                    /\ stages[j].method = stages[k].method =>
                    stages[j].calls[1].arg = stages[k].calls[1].arg

\* two branches of the wrapper of `initial`: the one built first rejects,
\* after the one built second has resolved
C30_Witness ==
    /\ Len(stages) = 2 /\ stages[1].parent = 0 /\ stages[2].parent = 0
    /\ stages[1].method = "map" /\ stages[1].a.fn = "asyncBoom"
    /\ stages[2].method = "map" /\ stages[2].a.fn = "double"
    /\ stages[1].ret = Rejected(NewError("boom"))
    /\ stages[2].ret = Fulfilled(ok(Num(2)))
    /\ Pos(<<"settle", 2>>) < Pos(<<"settle", 1>>)

====
